---- MODULE Spec2Model ----
(***************************************************************************)
(* Model of team_portrait_to_gcal_csv.py: scrape a nuLiga team portrait    *)
(* page into a Google-Calendar CSV.                                        *)
(*                                                                         *)
(* Text is modelled as a sequence of one-character strings, so that the    *)
(* regular expressions, whitespace normalisation, formatting and substring *)
(* tests of the program are computed character by character.               *)
(***************************************************************************)
EXTENDS Integers, Sequences, FiniteSets, TLC

VARIABLES
    pc,        \* position of main(): "fetch","locate","rows","write","done","error"
               \* (and "call"/"returned" for a single hall_address_from_cell call)
    err,       \* the exception that ended the run, "none" if none
    page,      \* the document served at --url (sequence of elements, document order)
    duration,  \* args.duration
    enrich,    \* not args.no_enrich
    tables,    \* result of find_schedule_tables: positions in page, with repeats
    ti, ri,    \* loop position: tables[ti], its ri-th tr
    rows_out,  \* the list of emitted records
    srcs,      \* for each record of rows_out, <<position of its table in page, row index>>
    requests,  \* log of the network requests issued, in order
    outFile,   \* contents of the file at args.out
    writes,    \* number of write_csv invocations
    hcell,     \* hall_address_from_cell: the cell argument
    hout,      \* hall_address_from_cell: what the network answered
    hlines,    \* hall_address_from_cell: addr_lines at return
    hres       \* hall_address_from_cell: the returned string

vars == <<pc, err, page, duration, enrich, tables, ti, ri, rows_out, srcs,
          requests, outFile, writes, hcell, hout, hlines, hres>>

mainVars == <<page, duration, enrich, tables, ti, ri, rows_out, srcs, outFile, writes>>
hallVars == <<hcell, hout, hlines, hres>>

-----------------------------------------------------------------------------
(* Characters and strings *)

DigitChars == <<"0", "1", "2", "3", "4", "5", "6", "7", "8", "9">>

IsDigit(c) == \E n \in 1..10 : DigitChars[n] = c

DigitVal(c) == (CHOOSE n \in 1..10 : DigitChars[n] = c) - 1

\* "nbsp" stands for the character U+00A0, "\t" and "\n" for tab and newline
IsSpace(c) == c \in {" ", "\t", "\n", "nbsp"}

RECURSIVE Join(_, _)
\* sep.join(parts)
Join(parts, sep) ==
    IF parts = <<>> THEN <<>>
    ELSE IF Len(parts) = 1 THEN parts[1]
    ELSE parts[1] \o sep \o Join(Tail(parts), sep)

RECURSIVE Flatten(_)
Flatten(parts) == IF parts = <<>> THEN <<>> ELSE parts[1] \o Flatten(Tail(parts))

RECURSIVE Split(_, _, _)
\* str.split(): the maximal runs of non-whitespace characters of s[i..]
Split(s, i, word) ==
    IF i > Len(s) THEN (IF word = <<>> THEN <<>> ELSE <<word>>)
    ELSE IF IsSpace(s[i])
         THEN (IF word = <<>> THEN <<>> ELSE <<word>>) \o Split(s, i + 1, <<>>)
         ELSE Split(s, i + 1, Append(word, s[i]))

\* norm(s): " ".join(s.replace(nbsp, " ").split()).strip()
norm(s) ==
    LET t == [i \in 1..Len(s) |-> IF s[i] = "nbsp" THEN " " ELSE s[i]]
    IN  Join(Split(t, 1, <<>>), <<" ">>)

RECURSIVE LStrip(_)
LStrip(s) == IF s # <<>> /\ IsSpace(s[1]) THEN LStrip(Tail(s)) ELSE s

RECURSIVE RStrip(_)
RStrip(s) ==
    IF s # <<>> /\ IsSpace(s[Len(s)]) THEN RStrip(SubSeq(s, 1, Len(s) - 1)) ELSE s

\* str.strip()
Strip(s) == RStrip(LStrip(s))

\* needle in hay
Contains(hay, needle) ==
    \E i \in 1..(Len(hay) - Len(needle) + 1) :
        SubSeq(hay, i, i + Len(needle) - 1) = needle

\* Tag.get_text(sep, strip): the strings of the element in document order,
\* each stripped and the empty ones dropped when strip is set, joined by sep
get_text(strs, sep, strip) ==
    IF strip
    THEN Join(SelectSeq([i \in 1..Len(strs) |-> Strip(strs[i])], LAMBDA x : x # <<>>), sep)
    ELSE Join(strs, sep)

\* norm(x.get_text(" ", strip=True))
CellStrings(cell) == Flatten([i \in 1..Len(cell) |-> cell[i].strs])

CellText(cell) == norm(get_text(CellStrings(cell), <<" ">>, TRUE))

Pad2(n) == <<DigitChars[((n \div 10) % 10) + 1], DigitChars[(n % 10) + 1]>>

Pad4(n) == Pad2(n \div 100) \o Pad2(n % 100)

Num2(s, i) == 10 * DigitVal(s[i]) + DigitVal(s[i + 1])

-----------------------------------------------------------------------------
(* Regular expressions *)

\* DATE_RE matches at position i of s
DateAt(s, i) ==
    /\ i + 9 <= Len(s)
    /\ \A k \in {0, 1, 3, 4, 6, 7, 8, 9} : IsDigit(s[i + k])
    /\ s[i + 2] = "." /\ s[i + 5] = "."

RECURSIVE DateSearch(_, _)
\* DATE_RE.search(s) from position i: the position of the first match, 0 if none
DateSearch(s, i) ==
    IF i + 9 > Len(s) THEN 0
    ELSE IF DateAt(s, i) THEN i ELSE DateSearch(s, i + 1)

DATE_RE_search(s) == DateSearch(s, 1)

\* TIME_RE at position i with an hour of w digits
TimeAt(s, i, w) ==
    /\ i + w + 2 <= Len(s)
    /\ \A k \in 0..(w - 1) : IsDigit(s[i + k])
    /\ s[i + w] = ":"
    /\ IsDigit(s[i + w + 1]) /\ IsDigit(s[i + w + 2])

RECURSIVE TimeSearch(_, _)
\* TIME_RE.search(s) from position i: <<position, hour width>>, <<0, 0>> if none;
\* \d{1,2} is greedy, so two hour digits are tried first
TimeSearch(s, i) ==
    IF i + 3 > Len(s) THEN <<0, 0>>
    ELSE IF TimeAt(s, i, 2) THEN <<i, 2>>
    ELSE IF TimeAt(s, i, 1) THEN <<i, 1>>
    ELSE TimeSearch(s, i + 1)

TIME_RE_search(s) == TimeSearch(s, 1)

RECURSIVE DigitRun(_, _)
\* the last position of the run of digits that starts at i (i - 1 if s[i] is no digit)
DigitRun(s, i) ==
    IF i <= Len(s) /\ IsDigit(s[i]) THEN DigitRun(s, i + 1) ELSE i - 1

RECURSIVE ScoreSearch(_, _)
\* re.search(r"\d+:\d+", s) from position i: the matched text, <<>> if none
ScoreSearch(s, i) ==
    IF i > Len(s) THEN <<>>
    ELSE LET e == DigitRun(s, i)
         IN  IF /\ e >= i
                /\ e + 2 <= Len(s)
                /\ s[e + 1] = ":"
                /\ IsDigit(s[e + 2])
             THEN SubSeq(s, i, DigitRun(s, e + 2))
             ELSE ScoreSearch(s, i + 1)

-----------------------------------------------------------------------------
(* datetime *)

MINYEAR == 1
MAXYEAR == 9999
MinutesPerDay == 1440

IsLeap(y) == (y % 4 = 0) /\ ((y % 100 # 0) \/ (y % 400 = 0))

DaysInMonth(y, m) ==
    IF m = 2 THEN (IF IsLeap(y) THEN 29 ELSE 28)
    ELSE IF m \in {4, 6, 9, 11} THEN 30 ELSE 31

\* datetime(year, month, day, hour, minute) raises ValueError unless this holds
ValidDatetime(y, m, d, hh, mm) ==
    /\ y \in MINYEAR..MAXYEAR
    /\ m \in 1..12
    /\ d \in 1..DaysInMonth(y, m)
    /\ hh \in 0..23
    /\ mm \in 0..59

NextDay(dt) ==
    IF dt.d < DaysInMonth(dt.y, dt.m) THEN [dt EXCEPT !.d = dt.d + 1]
    ELSE IF dt.m < 12 THEN [dt EXCEPT !.m = dt.m + 1, !.d = 1]
    ELSE [dt EXCEPT !.y = dt.y + 1, !.m = 1, !.d = 1]

PrevDay(dt) ==
    IF dt.d > 1 THEN [dt EXCEPT !.d = dt.d - 1]
    ELSE IF dt.m > 1 THEN [dt EXCEPT !.m = dt.m - 1, !.d = DaysInMonth(dt.y, dt.m - 1)]
    ELSE [dt EXCEPT !.y = dt.y - 1, !.m = 12, !.d = 31]

RECURSIVE AddDays(_, _)
AddDays(dt, n) ==
    IF n = 0 THEN dt
    ELSE IF n > 0 THEN AddDays(NextDay(dt), n - 1)
    ELSE AddDays(PrevDay(dt), n + 1)

\* dt + timedelta(minutes=n); the result may lie outside MINYEAR..MAXYEAR,
\* where the program raises OverflowError
PlusMinutes(dt, n) ==
    LET total == dt.hh * 60 + dt.mm + n
        day   == AddDays(dt, (total \div MinutesPerDay))
        rest  == total % MinutesPerDay
    IN  [day EXCEPT !.hh = (rest \div 60), !.mm = (rest % 60)]

\* dt.strftime("%m/%d/%Y")
fmt_date(dt) == Pad2(dt.m) \o <<"/">> \o Pad2(dt.d) \o <<"/">> \o Pad4(dt.y)

\* dt.strftime("%H:%M")
fmt_time(dt) == Pad2(dt.hh) \o <<":">> \o Pad2(dt.mm)

-----------------------------------------------------------------------------
(* parse_datetime *)

DefaultTime == <<"1", "9", ":", "3", "0">>

\* parse_datetime(date_text, time_text): [kind |-> "none"] when DATE_RE finds nothing,
\* [kind |-> "ValueError"] when datetime(...) rejects the numbers, else the datetime
parse_datetime(date_text, time_text) ==
    LET dtxt == norm(date_text)
        ttxt == norm(time_text)
        m    == DATE_RE_search(dtxt)
        mt   == TIME_RE_search(ttxt)
        day   == Num2(dtxt, m)
        month == Num2(dtxt, m + 3)
        year  == 100 * Num2(dtxt, m + 6) + Num2(dtxt, m + 8)
        hh == IF mt[1] = 0 THEN 0
              ELSE IF mt[2] = 2 THEN Num2(ttxt, mt[1]) ELSE DigitVal(ttxt[mt[1]])
        mm == IF mt[1] = 0 THEN 0 ELSE Num2(ttxt, mt[1] + mt[2] + 1)
    IN  IF m = 0 THEN [kind |-> "none"]
        ELSE IF ~ValidDatetime(year, month, day, hh, mm) THEN [kind |-> "ValueError"]
        ELSE [kind |-> "ok", dt |-> [y |-> year, m |-> month, d |-> day, hh |-> hh, mm |-> mm]]

-----------------------------------------------------------------------------
(* find_schedule_tables *)

SPIELTERMINE == <<"S", "p", "i", "e", "l", "t", "e", "r", "m", "i", "n", "e">>

\* heading.find_next("table"): the position of the first table after position i, 0 if none
find_next_table(soup, i) ==
    LET after == {j \in (i + 1)..Len(soup) : soup[j].name = "table"}
    IN  IF after = {} THEN 0 ELSE CHOOSE j \in after : \A k \in after : j <= k

RECURSIVE FindTablesFrom(_, _)
FindTablesFrom(soup, i) ==
    IF i > Len(soup) THEN <<>>
    ELSE LET tbl == find_next_table(soup, i)
             hit == /\ soup[i].name \in {"h2", "h3"}
                    /\ Contains(get_text(soup[i].strs, <<>>, FALSE), SPIELTERMINE)
                    /\ tbl # 0
         IN  (IF hit THEN <<tbl>> ELSE <<>>) \o FindTablesFrom(soup, i + 1)

\* find_schedule_tables(soup): one entry per matching h2/h3 heading that has a
\* following table, in the order of the headings
find_schedule_tables(soup) == FindTablesFrom(soup, 1)

-----------------------------------------------------------------------------
(* hall_address_from_cell *)

HALLENADRESSE == <<"H", "a", "l", "l", "e", "n", "a", "d", "r", "e", "s", "s", "e">>

MaxAddrLines == 3

\* cell.find("a"): the position of the first a element of the cell, 0 if none
FindA(cell) ==
    LET as == {i \in 1..Len(cell) : cell[i].tag = "a"}
    IN  IF as = {} THEN 0 ELSE CHOOSE i \in as : \A k \in as : i <= k

\* a and a.get("href")
HasLink(cell) ==
    /\ FindA(cell) # 0
    /\ cell[FindA(cell)].hasHref
    /\ cell[FindA(cell)].href # <<>>

\* re.match(r"^h[1-4]$", name)
IsH14(name) == name \in {"h1", "h2", "h3", "h4"}

RECURSIVE AddrLoopByLevel(_, _, _)
\* variant: only a heading of equal or higher level than the marker heading ends the loop
AddrLoopByLevel(hs, i, lines) ==
    LET mark == CHOOSE k \in 1..Len(hs) :
                    /\ hs[k].name \in {"h1", "h2", "h3", "h4"}
                    /\ Contains(get_text(hs[k].strs, <<>>, FALSE), HALLENADRESSE)
                    /\ \A j \in 1..(k - 1) :
                          ~(/\ hs[j].name \in {"h1", "h2", "h3", "h4"}
                            /\ Contains(get_text(hs[j].strs, <<>>, FALSE), HALLENADRESSE))
        level(name) == CHOOSE n \in 1..4 : name = <<"h1", "h2", "h3", "h4">>[n]
    IN  IF i > Len(hs) THEN lines
        ELSE IF /\ hs[i].name \in {"h1", "h2", "h3", "h4"}
                /\ level(hs[i].name) <= level(hs[mark].name)
             THEN lines
        ELSE LET text == norm(get_text(hs[i].strs, <<" ">>, TRUE))
                 more == IF hs[i].name \in {"p", "div", "address"} /\ text # <<>>
                         THEN Append(lines, text) ELSE lines
             IN  IF Len(more) >= MaxAddrLines THEN more ELSE AddrLoopByLevel(hs, i + 1, more)

RECURSIVE AddrLoop(_, _, _)
\* for sib in tag.find_all_next(): ... over the elements hs[i..], addr_lines so far
AddrLoop(hs, i, lines) ==
    IF i > Len(hs) THEN lines
    ELSE IF IsH14(hs[i].name) THEN lines
    ELSE LET text == norm(get_text(hs[i].strs, <<" ">>, TRUE))
             more == IF hs[i].name \in {"p", "div", "address"} /\ text # <<>>
                     THEN Append(lines, text) ELSE lines
         IN  IF Len(more) >= MaxAddrLines THEN more ELSE AddrLoop(hs, i + 1, more)

\* the position of the first h1..h4 element whose text contains the marker, 0 if none
FindMarker(hs) ==
    LET ms == {i \in 1..Len(hs) :
                 /\ IsH14(hs[i].name)
                 /\ Contains(get_text(hs[i].strs, <<>>, FALSE), HALLENADRESSE)}
    IN  IF ms = {} THEN 0 ELSE CHOOSE i \in ms : \A k \in ms : i <= k

\* addr_lines after the loop over hs.find_all(h1..h4)
AddrLines(hs) ==
    IF FindMarker(hs) = 0 THEN <<>> ELSE AddrLoop(hs, FindMarker(hs) + 1, <<>>)

\* the code, the address and the optional prefix
AddrOf(cell, hs) ==
    LET fallback == CellText(cell)
        code == norm(get_text(cell[FindA(cell)].strs, <<>>, TRUE))
        lines == AddrLines(hs)
        addr == IF lines # <<>> THEN Join(lines, <<" ", "|", " ">>) ELSE fallback
    IN  IF code # <<>> /\ ~Contains(addr, code)
        THEN code \o <<" ", "endash", " ">> \o addr
        ELSE addr

\* hall_address_from_cell(cell, page_url), the network answering `out`:
\* the request issued (if any), addr_lines and the returned string
hall_address_from_cell(cell, out) ==
    IF ~HasLink(cell)
    THEN [fetched |-> FALSE, lines |-> <<>>, res |-> CellText(cell)]
    ELSE IF ~out.ok
    THEN [fetched |-> TRUE, lines |-> <<>>, res |-> CellText(cell)]
    ELSE [fetched |-> TRUE, lines |-> AddrLines(out.hs), res |-> AddrOf(cell, out.hs)]

-----------------------------------------------------------------------------
(* Documents: td cells, table rows, the team portrait page, hall pages *)

\* a td holding one string
Txt(s) == <<[tag |-> "text", hasHref |-> FALSE, href |-> <<>>, strs |-> <<s>>]>>

\* <a href=...>strs</a>, one string per text node inside the a element
Link(href, strs) == [tag |-> "a", hasHref |-> TRUE, href |-> href, strs |-> strs]

\* <a name=...>strs</a>, an a element without href
Anchor(strs) == [tag |-> "a", hasHref |-> FALSE, href |-> <<>>, strs |-> strs]

HallUrl == <<"/", "h">>

HallLinked      == <<Link(HallUrl, <<<<"T", "U">>>>)>>
HallPlain       == Txt(<<"L", "Y">>)
HallSplit       == <<Link(HallUrl, <<<<"T">>, <<"U">>>>)>>
HallAnchorFirst == <<Anchor(<<>>), Link(HallUrl, <<<<"T", "U">>>>)>>
HallEmptyHref   == <<Link(<<>>, <<<<"T", "U">>>>)>>
HallMixed       == <<Link(HallUrl, <<<<"T", "U">>>>)>> \o Txt(<<"nbsp", "C", " ">>)
HallNoHref      == <<Anchor(<<<<"T", "U">>>>)>>

HallCells ==
    {HallLinked, HallPlain, HallSplit, HallAnchorFirst, HallEmptyHref, HallMixed, HallNoHref}

D_0310 == <<"0", "3", ".", "1", "0", ".", "2", "0", "2", "5">>
D_2802 == <<"2", "8", ".", "0", "2", ".", "2", "0", "2", "4">>
D_3112 == <<"3", "1", ".", "1", "2", ".", "2", "0", "2", "5">>
D_0103 == <<"0", "1", ".", "0", "3", ".", "2", "0", "2", "4">>
D_0101 == <<"0", "1", ".", "0", "1", ".", "2", "0", "2", "6">>
D_3102 == <<"3", "1", ".", "0", "2", ".", "2", "0", "2", "5">>
D_short == <<"3", ".", "1", "0", ".", "2", "0", "2", "5">>
T_1930 == <<"1", "9", ":", "3", "0", " ", "U", "h", "r">>
T_2330 == <<"2", "3", ":", "3", "0">>
T_0015 == <<"0", ":", "1", "5", " ", "v">>
T_2500 == <<"2", "5", ":", "0", "0">>

\* the tr elements the tables are built from, each the list tr.find_all("td");
\* rows 1..7 fill the first table, row 8 is the second table, row 9 the third
RowOf(id) ==
    CASE id = 1 -> <<Txt(<<"F", "r">>), Txt(D_0310), Txt(T_1930), HallLinked,
                     Txt(<<"1", "2">>), Txt(<<"A">>), Txt(<<"B">>), Txt(<<"3", ":", "1">>)>>
      [] id = 2 -> <<Txt(<<"F", "r">>), Txt(D_0310), Txt(T_1930), HallLinked,
                     Txt(<<"1", "2">>), Txt(<<"A">>)>>
      [] id = 3 -> <<Txt(<<"F", "r">>), Txt(D_short), Txt(T_1930), HallLinked,
                     Txt(<<"1", "3">>), Txt(<<"A">>), Txt(<<"B">>)>>
      [] id = 4 -> <<Txt(<<"M", "i">>), Txt(<<"M", "i", " ">> \o D_3112), Txt(<<"nbsp">>),
                     HallPlain, <<>>, Txt(<<"A">>), Txt(<<"C">>), Txt(<<"nbsp">>)>>
      [] id = 5 -> <<Txt(<<"F", "r">>), Txt(D_0103), Txt(<<"v">>), HallSplit,
                     Txt(<<"1", "4">>), Txt(<<"B">>), Txt(<<"A">>)>>
      [] id = 6 -> <<Txt(<<"M", "i">>), Txt(D_2802), Txt(T_2330), HallAnchorFirst,
                     Txt(<<"1", "5">>), Txt(<<"C">>), Txt(<<"A">>), Txt(<<"v">>)>>
      [] id = 7 -> <<Txt(<<"F", "r">>), Txt(D_3102), Txt(T_1930), HallLinked,
                     Txt(<<"1", "6">>), Txt(<<"A">>), Txt(<<"B">>)>>
      [] id = 8 -> <<Txt(<<"D", "o">>), Txt(D_0101), Txt(T_0015), HallEmptyHref,
                     Txt(<<"1", "8">>), Txt(<<"A">>), Txt(<<"C">>), Txt(<<"0", ":", "3">>)>>
      [] id = 9 -> <<Txt(<<"F", "r">>), Txt(D_0310), Txt(T_2500), HallLinked,
                     Txt(<<"1", "7">>), Txt(<<"A">>), Txt(<<"B">>)>>

RowIds == 1..7

\* the longest first table of a page
MaxRows == 2

SeqsUpTo(S, n) == UNION {[1..k -> S] : k \in 0..n}

\* the arrangements of headings and tables of the team portrait page
Layouts ==
    <<  <<"H2M", "T1", "H3M", "T2">>,   \* Vorrunde and Rueckrunde, each under its heading
        <<"H2M", "H3M", "T1">>,         \* two matching headings before one table
        <<"H2M", "P", "T1", "H3M", "T3">>,  \* a paragraph in between; a third table
        <<"H2X", "T1">>,                \* no heading with the marker
        <<"T1", "H2M">>,                \* the marker heading has no following table
        <<"H4M", "T1">>  >>             \* the marker in an h4 heading

SecondTable == <<8>>

ThirdTable == <<9>>

Element(kind, rows) ==
    CASE kind = "H2M" -> [name |-> "h2", strs |-> <<SPIELTERMINE>>, rows |-> <<>>]
      [] kind = "H3M" -> [name |-> "h3", strs |-> <<SPIELTERMINE \o <<" ", "2">>>>, rows |-> <<>>]
      [] kind = "H4M" -> [name |-> "h4", strs |-> <<SPIELTERMINE>>, rows |-> <<>>]
      [] kind = "H2X" -> [name |-> "h2", strs |-> <<<<"T", "e", "a", "m">>>>, rows |-> <<>>]
      [] kind = "P"   -> [name |-> "p", strs |-> <<<<"x">>>>, rows |-> <<>>]
      [] kind = "T1"  -> [name |-> "table", strs |-> <<>>, rows |-> rows]
      [] kind = "T2"  -> [name |-> "table", strs |-> <<>>, rows |-> SecondTable]
      [] kind = "T3"  -> [name |-> "table", strs |-> <<>>, rows |-> ThirdTable]

\* BeautifulSoup(html): the elements of the page in document order; a table
\* carries the ids of its tr elements
Soup(pg) ==
    [i \in 1..Len(Layouts[pg.layout]) |-> Element(Layouts[pg.layout][i], pg.rows)]

Pages == [layout : 1..Len(Layouts), rows : SeqsUpTo(RowIds, MaxRows)]

\* the elements hall pages are built from
HallElement(id) ==
    CASE id = 1 -> [name |-> "h2", strs |-> <<HALLENADRESSE>>]
      [] id = 2 -> [name |-> "h3", strs |-> <<<<"W", "e", "g">>>>]
      [] id = 3 -> [name |-> "h5", strs |-> <<HALLENADRESSE>>]
      [] id = 4 -> [name |-> "p", strs |-> <<<<"S", "1">>>>]
      [] id = 5 -> [name |-> "div", strs |-> <<<<" ", "B">>, <<"2", "nbsp">>>>]
      [] id = 6 -> [name |-> "address", strs |-> <<<<"T", "U", " ", "C">>>>]
      [] id = 7 -> [name |-> "p", strs |-> <<<<"nbsp">>>>]
      [] id = 8 -> [name |-> "span", strs |-> <<<<"X">>>>]

HallElementIds == 1..8

\* the longest hall page
MaxElems == 4

HallSoup(ids) == [i \in 1..Len(ids) |-> HallElement(ids[i])]

\* what the network answers to a hall request
Answer(ok, ids) == [ok |-> ok, ids |-> ids]

NoAnswer == Answer(FALSE, <<>>)

HallAnswers == {NoAnswer} \cup {Answer(TRUE, ids) : ids \in SeqsUpTo(HallElementIds, MaxElems)}

\* the answers tried for the hall requests of a whole run
RunAnswers == {NoAnswer, Answer(TRUE, <<1, 4, 5>>)}

CallHall(cell, out) == hall_address_from_cell(cell, [ok |-> out.ok, hs |-> HallSoup(out.ids)])

Durations == {-30, 0, 300}

-----------------------------------------------------------------------------
(* parse_team_portrait: one table row *)

MinCells == 7

\* tds[i] of the program is tds[i + 1] here
CellOr(tds, i, n) == IF Len(tds) >= n THEN CellText(tds[i + 1]) ELSE <<>>

\* variant: the cell count is compared with one less
TooFewCellsOffByOne(tds) == Len(tds) < MinCells - 1

\* len(tds) < 7: the row is skipped
TooFewCells(tds) == Len(tds) < MinCells

\* variant: the default also replaces a time text without a time pattern
TimeOrDefaultIfNoPattern(time_txt) ==
    IF TIME_RE_search(norm(time_txt))[1] # 0 THEN time_txt ELSE DefaultTime

\* time_txt or "19:30"
TimeOrDefault(time_txt) == IF time_txt # <<>> THEN time_txt ELSE DefaultTime

\* start_dt of a row that passed the cell count and the date gate
StartOf(tds) == parse_datetime(CellText(tds[2]), TimeOrDefault(CellText(tds[3])))

\* how the loop body ends for the row: "skip" (continue), "ValueError" or
\* "OverflowError" (raised, not caught anywhere), or "emit"
RowKind(tds, dur) ==
    LET start == StartOf(tds)
    IN  IF TooFewCells(tds) THEN "skip"
        ELSE IF DATE_RE_search(CellText(tds[2])) = 0 THEN "skip"
        ELSE IF start.kind = "none" THEN "skip"
        ELSE IF start.kind = "ValueError" THEN "ValueError"
        ELSE IF PlusMinutes(start.dt, dur).y \notin MINYEAR..MAXYEAR THEN "OverflowError"
        ELSE "emit"

\* desc_parts joined
Description(nr_txt, result) ==
    LET nr    == IF nr_txt # <<>>
                 THEN <<<<"S", "p", "i", "e", "l", " ", "N", "r", ".", ":", " ">> \o nr_txt>>
                 ELSE <<>>
        score == IF result # <<>> /\ ScoreSearch(result, 1) # <<>>
                 THEN <<<<"E", "r", "g", "e", "b", "n", "i", "s", ":", " ">> \o ScoreSearch(result, 1)>>
                 ELSE <<>>
    IN  Join(nr \o score, <<" ", "|", " ">>)

\* variant: End Date is formatted from the start
RecordEndDateOfStart(start_dt, end_dt, tds, location) ==
    [Subject     |-> CellOr(tds, 5, 6) \o <<" ", "v", "s", ".", " ">> \o CellOr(tds, 6, 7),
     StartDate   |-> fmt_date(start_dt),
     StartTime   |-> fmt_time(start_dt),
     EndDate     |-> fmt_date(start_dt),
     EndTime     |-> fmt_time(end_dt),
     AllDayEvent |-> "False",
     Description |-> Description(CellOr(tds, 4, 5), CellOr(tds, 7, 8)),
     Location    |-> location,
     Private     |-> "False"]

\* the dict appended to rows_out
Record(start_dt, end_dt, tds, location) ==
    [Subject     |-> CellOr(tds, 5, 6) \o <<" ", "v", "s", ".", " ">> \o CellOr(tds, 6, 7),
     StartDate   |-> fmt_date(start_dt),
     StartTime   |-> fmt_time(start_dt),
     EndDate     |-> fmt_date(end_dt),
     EndTime     |-> fmt_time(end_dt),
     AllDayEvent |-> "False",
     Description |-> Description(CellOr(tds, 4, 5), CellOr(tds, 7, 8)),
     Location    |-> location,
     Private     |-> "False"]

\* variant: the duration is subtracted
RowRecordMinusDuration(tds, dur, enr, out) ==
    LET start_dt == StartOf(tds).dt
        end_dt   == PlusMinutes(start_dt, 0 - dur)
        location == IF enr THEN CallHall(tds[4], out).res ELSE CellText(tds[4])
    IN  [Subject     |-> CellOr(tds, 5, 6) \o <<" ", "v", "s", ".", " ">> \o CellOr(tds, 6, 7),
         StartDate   |-> fmt_date(start_dt),
         StartTime   |-> fmt_time(start_dt),
         EndDate     |-> fmt_date(end_dt),
         EndTime     |-> fmt_time(end_dt),
         AllDayEvent |-> "False",
         Description |-> Description(CellOr(tds, 4, 5), CellOr(tds, 7, 8)),
         Location    |-> location,
         Private     |-> "False"]

\* the record of an emitted row; out is the network's answer to the hall request
RowRecord(tds, dur, enr, out) ==
    LET start_dt == StartOf(tds).dt
        end_dt   == PlusMinutes(start_dt, dur)
        location == IF enr THEN CallHall(tds[4], out).res ELSE CellText(tds[4])
    IN  Record(start_dt, end_dt, tds, location)

\* variant: a failed hall request is repeated once
RowRequestsRetry(tds, enr, out) ==
    IF enr /\ CallHall(tds[4], out).fetched
    THEN IF out.ok
         THEN <<[kind |-> "hall", ok |-> TRUE]>>
         ELSE <<[kind |-> "hall", ok |-> FALSE], [kind |-> "hall", ok |-> FALSE]>>
    ELSE <<>>

\* the hall request of an emitted row, if one is issued
RowRequests(tds, enr, out) ==
    IF enr /\ CallHall(tds[4], out).fetched
    THEN <<[kind |-> "hall", ok |-> out.ok]>>
    ELSE <<>>

-----------------------------------------------------------------------------
(* The run: main() *)

OldFile == [header |-> <<>>, rows |-> <<"old">>]

FIELDNAMES ==
    <<"Subject", "Start Date", "Start Time", "End Date", "End Time",
      "All Day Event", "Description", "Location", "Private">>

TableRows(pg, t) == Soup(pg)[t].rows

RECURSIVE Seek(_, _, _, _)
\* the loop position at or after (i, r) that holds a tr, <<Len(ts) + 1, 1>> if none
Seek(pg, ts, i, r) ==
    IF i > Len(ts) THEN <<Len(ts) + 1, 1>>
    ELSE IF r <= Len(TableRows(pg, ts[i])) THEN <<i, r>>
    ELSE Seek(pg, ts, i + 1, 1)

AtRow == pc = "rows" /\ ti <= Len(tables)

CurrentRow == RowOf(TableRows(page, tables[ti])[ri])

Advance ==
    /\ ti' = Seek(page, tables, ti, ri + 1)[1]
    /\ ri' = Seek(page, tables, ti, ri + 1)[2]

Init ==
    /\ pc = "fetch"
    /\ err = "none"
    /\ page \in Pages
    /\ duration \in Durations
    /\ enrich \in BOOLEAN
    /\ tables = <<>>
    /\ ti = 1
    /\ ri = 1
    /\ rows_out = <<>>
    /\ srcs = <<>>
    /\ requests = <<>>
    /\ outFile = OldFile
    /\ writes = 0
    /\ hcell = <<>>
    /\ hout = NoAnswer
    /\ hlines = <<>>
    /\ hres = <<>>

\* fetch(url) returns the page
FetchOk ==
    /\ pc = "fetch"
    /\ requests' = Append(requests, [kind |-> "primary", ok |-> TRUE])
    /\ pc' = "locate"
    /\ UNCHANGED <<err, mainVars, hallVars>>

\* fetch(url) raises (bad status, timeout)
FetchFails ==
    /\ pc = "fetch"
    /\ requests' = Append(requests, [kind |-> "primary", ok |-> FALSE])
    /\ pc' = "error"
    /\ err' = "FetchError"
    /\ UNCHANGED <<mainVars, hallVars>>

\* variant: an empty list of tables is not an error
LocateTablesNoRaise ==
    /\ pc = "locate"
    /\ pc' = "rows"
    /\ tables' = find_schedule_tables(Soup(page))
    /\ ti' = Seek(page, tables', 1, 1)[1]
    /\ ri' = Seek(page, tables', 1, 1)[2]
    /\ UNCHANGED <<err, page, duration, enrich, rows_out, srcs, requests, outFile, writes, hallVars>>

\* tables = find_schedule_tables(soup); if not tables: raise RuntimeError
LocateTables ==
    /\ pc = "locate"
    /\ LET t == find_schedule_tables(Soup(page))
       IN  IF t = <<>>
           THEN /\ pc' = "error"
                /\ err' = "RuntimeError"
                /\ UNCHANGED <<tables, ti, ri>>
           ELSE /\ pc' = "rows"
                /\ err' = err
                /\ tables' = t
                /\ ti' = Seek(page, t, 1, 1)[1]
                /\ ri' = Seek(page, t, 1, 1)[2]
    /\ UNCHANGED <<page, duration, enrich, rows_out, srcs, requests, outFile, writes, hallVars>>

\* the row is passed over by one of the three continue statements
SkipRow ==
    /\ AtRow
    /\ RowKind(CurrentRow, duration) = "skip"
    /\ Advance
    /\ UNCHANGED <<pc, err, page, duration, enrich, tables, rows_out, srcs, requests,
                   outFile, writes, hallVars>>

\* datetime(...) or start_dt + timedelta(...) raises; nothing catches it
RowRaises ==
    /\ AtRow
    /\ RowKind(CurrentRow, duration) \in {"ValueError", "OverflowError"}
    /\ pc' = "error"
    /\ err' = RowKind(CurrentRow, duration)
    /\ UNCHANGED <<mainVars, requests, hallVars>>

\* the row yields a record, after the hall request if one is made
EmitRow ==
    /\ AtRow
    /\ RowKind(CurrentRow, duration) = "emit"
    /\ \E out \in RunAnswers :
          /\ rows_out' = Append(rows_out, RowRecord(CurrentRow, duration, enrich, out))
          /\ requests' = requests \o RowRequests(CurrentRow, enrich, out)
    /\ srcs' = Append(srcs, <<tables[ti], ri>>)
    /\ Advance
    /\ UNCHANGED <<pc, err, page, duration, enrich, tables, outFile, writes, hallVars>>

\* return rows_out
ReturnRows ==
    /\ pc = "rows"
    /\ ti > Len(tables)
    /\ pc' = "write"
    /\ UNCHANGED <<err, mainVars, requests, hallVars>>

\* write_csv(rows, args.out) and the final print
WriteCsv ==
    /\ pc = "write"
    /\ writes' = writes + 1
    /\ outFile' = [header |-> FIELDNAMES, rows |-> rows_out]
    /\ pc' = "done"
    /\ UNCHANGED <<err, page, duration, enrich, tables, ti, ri, rows_out, srcs, requests, hallVars>>

\* open(out_path, "w") raises
WriteCsvFails ==
    /\ pc = "write"
    /\ writes' = writes + 1
    /\ pc' = "error"
    /\ err' = "OSError"
    /\ UNCHANGED <<page, duration, enrich, tables, ti, ri, rows_out, srcs, requests,
                   outFile, hallVars>>

Next ==
    \/ FetchOk
    \/ FetchFails
    \/ LocateTables
    \/ SkipRow
    \/ RowRaises
    \/ EmitRow
    \/ ReturnRows
    \/ WriteCsv
    \/ WriteCsvFails

Spec == Init /\ [][Next]_vars

-----------------------------------------------------------------------------
(* A single call of hall_address_from_cell *)

InitHall ==
    /\ pc = "call"
    /\ err = "none"
    /\ page = [layout |-> 1, rows |-> <<>>]
    /\ duration = 120
    /\ enrich = TRUE
    /\ tables = <<>>
    /\ ti = 1
    /\ ri = 1
    /\ rows_out = <<>>
    /\ srcs = <<>>
    /\ requests = <<>>
    /\ outFile = OldFile
    /\ writes = 0
    /\ hcell \in HallCells
    /\ hout = NoAnswer
    /\ hlines = <<>>
    /\ hres = <<>>

Return(out) ==
    /\ hout' = out
    /\ hlines' = CallHall(hcell, out).lines
    /\ hres' = CallHall(hcell, out).res
    /\ pc' = "returned"
    /\ UNCHANGED <<err, mainVars, hcell>>

\* no a element, or one without a target: return fallback, no request
HallNoLink ==
    /\ pc = "call"
    /\ ~CallHall(hcell, NoAnswer).fetched
    /\ requests' = requests
    /\ Return(NoAnswer)

\* fetch(hall_url) raises: except Exception: return fallback
HallFetchFails ==
    /\ pc = "call"
    /\ CallHall(hcell, NoAnswer).fetched
    /\ requests' = Append(requests, [kind |-> "hall", ok |-> FALSE])
    /\ Return(NoAnswer)

\* fetch(hall_url) returns a page
HallFetchOk ==
    /\ pc = "call"
    /\ \E out \in HallAnswers :
          /\ out.ok
          /\ CallHall(hcell, out).fetched
          /\ requests' = Append(requests, [kind |-> "hall", ok |-> TRUE])
          /\ Return(out)

NextHall ==
    \/ HallNoLink
    \/ HallFetchFails
    \/ HallFetchOk

SpecHall == InitHall /\ [][NextHall]_vars

-----------------------------------------------------------------------------
(* Definitions used to state the properties *)

\* the tr a record was built from
SrcRow(k) == RowOf(TableRows(page, srcs[k][1])[srcs[k][2]])

Records == 1..Len(rows_out)

\* the text contains a DD.MM.YYYY pattern
HasDatePattern(s) == \E i \in 1..Len(s) : DateAt(s, i)

\* the text contains an H:MM or HH:MM pattern
HasTimePattern(s) == \E i \in 1..Len(s) : \E w \in {1, 2} : TimeAt(s, i, w)

\* hour and minute of the first H:MM / HH:MM pattern of the text, as "HH:MM"
PatternTime(s) ==
    LET i == CHOOSE j \in 1..Len(s) :
                /\ \E w \in {1, 2} : TimeAt(s, j, w)
                /\ \A k \in 1..(j - 1) : \A w \in {1, 2} : ~TimeAt(s, k, w)
        w == IF TimeAt(s, i, 2) THEN 2 ELSE 1
    IN  (IF w = 2 THEN <<s[i], s[i + 1]>> ELSE <<"0", s[i]>>) \o <<":", s[i + w + 1], s[i + w + 2]>>

DaysBefore == <<0, 31, 59, 90, 120, 151, 181, 212, 243, 273, 304, 334>>

\* proleptic Gregorian ordinal of a date
Ordinal(y, m, d) ==
    365 * (y - 1) + ((y - 1) \div 4) - ((y - 1) \div 100) + ((y - 1) \div 400)
      + DaysBefore[m] + (IF m > 2 /\ IsLeap(y) THEN 1 ELSE 0) + d

\* day number of a date field "MM/DD/YYYY"
DayOf(date) == Ordinal(100 * Num2(date, 7) + Num2(date, 9), Num2(date, 1), Num2(date, 4))

\* minute of the day of a time field "HH:MM"
MinuteOf(time) == 60 * Num2(time, 1) + Num2(time, 4)

\* minutes from the start to the end of a record
Length(rec) ==
    (DayOf(rec.EndDate) - DayOf(rec.StartDate)) * MinutesPerDay
      + MinuteOf(rec.EndTime) - MinuteOf(rec.StartTime)

\* the first a element of the cell has a non-empty href
FirstAnchorHasTarget(cell) ==
    \E i \in 1..Len(cell) :
        /\ cell[i].tag = "a" /\ cell[i].hasHref /\ cell[i].href # <<>>
        /\ \A j \in 1..(i - 1) : cell[j].tag # "a"

\* the cell contains a hyperlink with a non-empty target
AnyAnchorHasTarget(cell) ==
    \E i \in 1..Len(cell) : cell[i].tag = "a" /\ cell[i].hasHref /\ cell[i].href # <<>>

HeadingLevel(name) ==
    CASE name = "h1" -> 1 [] name = "h2" -> 2 [] name = "h3" -> 3
      [] name = "h4" -> 4 [] name = "h5" -> 5 [] name = "h6" -> 6 [] OTHER -> 0

HasMarker(el, marker) == Contains(Flatten(el.strs), marker)

\* the first h1..h4 heading of the hall page that contains "Hallenadresse", 0 if none
MarkerAt(hs) ==
    LET ms == {i \in 1..Len(hs) : HeadingLevel(hs[i].name) \in 1..4 /\ HasMarker(hs[i], HALLENADRESSE)}
    IN  IF ms = {} THEN 0 ELSE CHOOSE i \in ms : \A k \in ms : i <= k

\* the non-empty p/div/address texts between the marker heading and the first
\* following element that satisfies Stops, the first three of them
Fragments(hs, Stops(_)) ==
    LET m     == MarkerAt(hs)
        stops == {j \in (m + 1)..Len(hs) : Stops(hs[j])}
        last  == IF stops = {} THEN Len(hs) ELSE (CHOOSE j \in stops : \A k \in stops : j <= k) - 1
        texts == [j \in 1..(last - m) |-> norm(Join(hs[m + j].strs, <<" ">>))]
        kept  == SelectSeq([j \in 1..(last - m) |->
                              IF hs[m + j].name \in {"p", "div", "address"} THEN texts[j] ELSE <<>>],
                           LAMBDA t : t # <<>>)
    IN  IF Len(kept) > 3 THEN SubSeq(kept, 1, 3) ELSE kept

EndsWith(s, t) == Len(t) <= Len(s) /\ SubSeq(s, Len(s) - Len(t) + 1, Len(s)) = t

HallPageFetched == pc = "returned" /\ requests # <<>> /\ requests[Len(requests)].ok

-----------------------------------------------------------------------------
(* Properties *)

\* C1: once the tables are located, no row content aborts the run: every row
\* ends in a record or a skip, never in an exception leaving parse_team_portrait
C1_NoRowAbortsRun == ~(pc = "error" /\ err \in {"ValueError", "OverflowError"})

\* C2: a record is emitted only for a row with at least 7 td cells whose date
\* cell contains a DD.MM.YYYY pattern
C2_RecordOnlyForValidRow ==
    /\ Len(srcs) = Len(rows_out)
    /\ \A k \in Records :
          /\ Len(SrcRow(k)) >= 7
          /\ HasDatePattern(CellText(SrcRow(k)[2]))

\* a short row and a row without a date were passed over, one record was emitted
C2_Witness ==
    /\ pc = "write" /\ page.layout = 1 /\ page.rows = <<2, 3>>
    /\ Len(rows_out) = 1 /\ srcs = <<<<4, 1>>>>

\* C3 as stated: the end of every record is strictly later than its start, for
\* every duration that can be supplied
C3_EndAfterStart == \A k \in Records : Length(rows_out[k]) > 0

\* C3 amended: the end is strictly later than the start for a positive duration,
\* equal to it for duration 0 and earlier for a negative duration
C3_EndAfterStartIfPositive ==
    \A k \in Records :
        /\ duration > 0 => Length(rows_out[k]) > 0
        /\ duration = 0 => Length(rows_out[k]) = 0
        /\ duration < 0 => Length(rows_out[k]) < 0

C3_Witness ==
    /\ duration = 0 /\ rows_out # <<>>
    /\ rows_out[1].EndDate = rows_out[1].StartDate
    /\ rows_out[1].EndTime = rows_out[1].StartTime

\* C4: for a duration of 0 or more minutes the end of every record is its start
\* plus exactly that many minutes, End Date moving to a later day exactly when
\* start plus duration crosses midnight
C4_EndIsStartPlusDuration ==
    duration >= 0 =>
        \A k \in Records :
            LET rec == rows_out[k]
            IN  /\ Length(rec) = duration
                /\ DayOf(rec.EndDate) - DayOf(rec.StartDate)
                     = (MinuteOf(rec.StartTime) + duration) \div MinutesPerDay
                /\ MinuteOf(rec.EndTime) = (MinuteOf(rec.StartTime) + duration) % MinutesPerDay

\* a match on 31.12.2025 at 19:30 ends on 01/01/2026 at 00:30, one on
\* 28.02.2024 at 23:30 ends on 02/29/2024 at 04:30
C4_Witness ==
    /\ duration = 300
    /\ \E k \in Records :
          /\ rows_out[k].StartDate = <<"1", "2", "/", "3", "1", "/", "2", "0", "2", "5">>
          /\ rows_out[k].StartTime = <<"1", "9", ":", "3", "0">>
          /\ rows_out[k].EndDate = <<"0", "1", "/", "0", "1", "/", "2", "0", "2", "6">>
          /\ rows_out[k].EndTime = <<"0", "0", ":", "3", "0">>
    /\ \E k \in Records :
          /\ rows_out[k].StartDate = <<"0", "2", "/", "2", "8", "/", "2", "0", "2", "4">>
          /\ rows_out[k].EndDate = <<"0", "2", "/", "2", "9", "/", "2", "0", "2", "4">>
          /\ rows_out[k].EndTime = <<"0", "4", ":", "3", "0">>

\* C5: Start Time is 19:30 for an empty time cell, the hour and minute of the
\* H:MM / HH:MM pattern when the cell has one, and 00:00 for a non-empty cell
\* without a pattern
C5_StartTimeCases ==
    \A k \in Records :
        LET t == CellText(SrcRow(k)[3])
        IN  rows_out[k].StartTime =
                IF t = <<>> THEN <<"1", "9", ":", "3", "0">>
                ELSE IF HasTimePattern(t) THEN PatternTime(t)
                ELSE <<"0", "0", ":", "0", "0">>

\* one record of each of the three cases
C5_Witness ==
    /\ pc = "write" /\ page.layout = 1 /\ page.rows = <<4, 5>>
    /\ Len(rows_out) = 3
    /\ rows_out[1].StartTime = <<"1", "9", ":", "3", "0">>
    /\ rows_out[2].StartTime = <<"0", "0", ":", "0", "0">>
    /\ rows_out[3].StartTime = <<"0", "0", ":", "1", "5">>

\* C6: with no hyperlink with a target, a failed hall fetch, or a hall page without
\* a heading containing "Hallenadresse", the result is exactly the raw normalized
\* text of the venue cell
C6_FallbackIsRawText ==
    LET noLink    == ~AnyAnchorHasTarget(hcell)
        fetchFail == requests # <<>> /\ ~requests[Len(requests)].ok
        noMarker  == /\ HallPageFetched
                     /\ \A i \in 1..Len(hout.ids) :
                           ~(/\ HeadingLevel(HallElement(hout.ids[i]).name) # 0
                             /\ HasMarker(HallElement(hout.ids[i]), HALLENADRESSE))
    IN  (pc = "returned" /\ (noLink \/ fetchFail \/ noMarker)) => hres = CellText(hcell)

\* the page has a heading containing "Spieltermine" that is followed by a table
HasScheduleTable(soup) ==
    \E i \in 1..Len(soup) : \E j \in (i + 1)..Len(soup) :
        /\ HeadingLevel(soup[i].name) # 0
        /\ HasMarker(soup[i], SPIELTERMINE)
        /\ soup[j].name = "table"

\* C7: the file is written only after the primary fetch succeeded, a table was
\* located and every row was processed; a failed fetch or a page without schedule
\* tables ends in an error with write_csv never invoked and the file unchanged;
\* located tables without valid rows give a header-only file
C7_WriteOnlyAfterAllRows ==
    /\ (writes > 0 \/ outFile # OldFile) =>
          /\ requests # <<>> /\ requests[1].ok
          /\ tables # <<>>
          /\ ti > Len(tables)
    /\ (requests # <<>> /\ ~requests[1].ok) => (pc = "error" /\ err = "FetchError")
    /\ (~HasScheduleTable(Soup(page)) /\ pc \notin {"fetch", "locate"}) => pc = "error"
    /\ pc = "error" /\ err \in {"FetchError", "RuntimeError"} =>
          (writes = 0 /\ outFile = OldFile)
    /\ pc = "done" => (err = "none" /\ outFile = [header |-> FIELDNAMES, rows |-> rows_out])

\* tables were located, no row was valid, the file holds the header only
C7_Witness ==
    /\ pc = "done" /\ tables # <<>> /\ page.rows = <<2, 3>>
    /\ outFile = [header |-> FIELDNAMES, rows |-> <<>>]

\* the tables that are the nearest following table of a matching h2/h3 heading
LocatedTables(soup) ==
    {j \in 1..Len(soup) :
        /\ soup[j].name = "table"
        /\ \E i \in 1..(j - 1) :
              /\ soup[i].name \in {"h2", "h3"}
              /\ HasMarker(soup[i], SPIELTERMINE)
              /\ \A k \in (i + 1)..(j - 1) : soup[k].name # "table"}

ValidRow(tds) == Len(tds) >= 7 /\ HasDatePattern(CellText(tds[2]))

RECURSIVE ValidRowsFrom(_, _)
\* the valid rows of the located tables soup[j..], in document order
ValidRowsFrom(soup, j) ==
    IF j > Len(soup) THEN <<>>
    ELSE (IF j \in LocatedTables(soup)
          THEN SelectSeq([r \in 1..Len(soup[j].rows) |-> <<j, r>>],
                         LAMBDA p : ValidRow(RowOf(soup[j].rows[p[2]])))
          ELSE <<>>) \o ValidRowsFrom(soup, j + 1)

\* C8: the returned list holds exactly one record per valid row of the located
\* tables, in document order, none twice
C8_OneRecordPerValidRow ==
    pc \in {"write", "done"} => srcs = ValidRowsFrom(Soup(page), 1)

HallRequests == Cardinality({i \in 1..Len(requests) : requests[i].kind = "hall"})

RequestOrder ==
    /\ pc = "fetch" => requests = <<>>
    /\ pc # "fetch" =>
          /\ requests # <<>>
          /\ requests[1].kind = "primary"
          /\ \A i \in 2..Len(requests) : requests[i].kind = "hall"

====
